---- MODULE Spec2Model ----
(***************************************************************************)
(* Behavioural model of the two demo programs of the repository:           *)
(*   src/observer.ts       EventManager (listener registry), Editor        *)
(*   src/unnamed/part_000  Unit, ModifyUnitCommand (undoable command),     *)
(*                         BuyCommand, SellCommand, InputHandler           *)
(*                                                                         *)
(* Spec    is the observer program: the registry, the Editor that owns it  *)
(*         and listeners whose update() may return, raise, or call         *)
(*         subscribe/unsubscribe on the registry that is notifying them.   *)
(* SpecCmd is the command program: one Unit and the ModifyUnitCommand      *)
(*         objects that hold a reference to it.                            *)
(* SpecPoll and SpecSimple are the input handler program: the polls, with  *)
(*         the answers of isTriggered and getSelectedUnit as inputs, and   *)
(*         execute() on the command a poll returned.                       *)
(* The other specifications are one of these programs, or the registry     *)
(* alone, with the history one property needs.                             *)
(*                                                                         *)
(* Both programs are single-threaded and synchronous.  notify() is the     *)
(* only operation that calls out (listener.update), so it is the only one  *)
(* modelled in several steps: the call, then one step per update() that    *)
(* returns or raises.  While an update() is running, the only registry     *)
(* calls are those made by that listener.  Listeners do not call notify,   *)
(* openFile or saveFile from inside update().                              *)
(***************************************************************************)
EXTENDS Integers, Sequences, FiniteSets, TLC

\* ------------------------------------------------------------------ bounds
\* Total number of entries the registry holds over all event types.
MaxSubs == 2

\* Largest magnitude of a number held by a Unit or a command.
MaxAbs == 4

\* Largest magnitude of a number passed to a constructor or setter.
MaxArg == 1

\* Total number of entries the registry holds when no notify is followed.
MaxReg == 4

\* Number of lines of console output the model follows.
MaxOut == 4

\* ------------------------------------------------------------ value spaces
EventTypes == {"open", "save"}

Listeners == {"logger", "emailAlerts", "other"}

Paths == {"a.txt", "b.txt"}

OnePath == {"a.txt"}

NoFile == "undefined"

Commands == {"c1", "c2"}

OneCommand == {"c1"}

\* enum Action
Actions == {"BUY", "SELL"}

\* What the environment answers to isTriggered: the set of actions for which
\* it answers true.  The stub of the repository answers true for every
\* action, which is the set Actions itself.
Triggers == SUBSET Actions

\* What getSelectedUnit answers: "new", a Unit just constructed, as the stub
\* of the repository does; or "same", the Unit it answered the time before.
Selections == {"new", "same"}

VARIABLES
    listeners,  \* EventManager.listeners : Map<string, Listener[]>
    file,       \* Editor.file (its name), NoFile before the first openFile
    pass,       \* the notify() call in progress or last finished
    thrown,     \* the error that left the most recent call, "none" if it returned
    lastCall,   \* history: the kind of the step just taken
    late,       \* history: listeners added to the key during the pass before
    subOrder,   \* history: subscribe calls per key since its last unsubscribe
    expect,     \* history: subOrder of the key when notify was called
    watch,      \* history: a pair <<key, listener>> whose unsubscribe returned
    unit,       \* Unit._value
    cmds,       \* the ModifyUnitCommand objects: value, prevValue
    cmdThrown,  \* the error that left the most recent call on a command
    executed,   \* history: the commands execute() has been called on
    before,     \* history: Unit value just before the command's last execute
    lastExec,   \* history: the command whose execute() was the most recent call
    gone,       \* history: listeners removed from the key during a pass
    lastUndo,   \* history: the undo() calls made in a row
    polled,     \* what the most recent handleInput / handleUnitInput returned
    out,        \* the lines written by console.log
    pollInfo,   \* history: the triggers and the Unit value of the last poll
    execLog     \* history: the commands whose execute(actor) was called

coreVars == <<listeners, file, pass, thrown>>
orderVars == <<subOrder, expect>>
cmdVars == <<unit, cmds, cmdThrown, executed, before, lastExec>>
inputVars == <<polled, out, pollInfo, execLog>>
vars == <<listeners, file, pass, thrown, lastCall, late, subOrder, expect,
          watch, unit, cmds, cmdThrown, executed, before, lastExec,
          gone, lastUndo, polled, out, pollInfo, execLog>>

\* ---------------------------------------------------------------- helpers
Range(s) == {s[i] : i \in 1..Len(s)}

Has(s, x) == \E i \in 1..Len(s) : s[i] = x

Count(s, x) == Cardinality({i \in 1..Len(s) : s[i] = x})

IsSuffix(t, s) ==
    /\ Len(t) <= Len(s)
    /\ \A i \in 1..Len(t) : t[i] = s[Len(s) - Len(t) + i]

\* What Map.get returns for a key the map does not hold.
Undef == <<"undefined">>

\* Map.get(eventType)
lookup(m, k) == IF k \in DOMAIN m THEN m[k] ELSE Undef

\* The sequence of a key as a caller of the registry sees it: empty for a
\* key the map does not hold.
Get(m, k) == IF k \in DOMAIN m THEN m[k] ELSE <<>>

\* Variant of MapSet: the map is replaced by one that holds the key alone.
MapOnly(m, k, v) == [x \in {k} |-> v]

\* Map.set(eventType, array)
MapSet(m, k, v) == [x \in (DOMAIN m) \cup {k} |-> IF x = k THEN v ELSE m[x]]

EmptyMap == [k \in {} |-> <<>>]

RECURSIVE TotalLen(_, _)
TotalLen(m, ks) ==
    IF ks = {} THEN 0
    ELSE LET k == CHOOSE x \in ks : TRUE
         IN Len(Get(m, k)) + TotalLen(m, ks \ {k})


\* ------------------------------------------------------- EventManager code
\* Variant of orEmpty: no fallback, the value Map.get returned is used as is.
noFallback(v) == v

\* The fallback of all three methods: "|| []" in subscribe and unsubscribe,
\* "?? []" in notify.
orEmpty(v) == IF v = Undef THEN <<>> ELSE v

\* Variant of appended: [listener, ...eventListeners]
prepended(arr, l) == <<l>> \o arr

\* subscribe: [...eventListeners, listener]
appended(arr, l) == Append(arr, l)

\* Variant of filtered: the test inverted, filter(l => l === listener)
filteredInverted(arr, l) == SelectSeq(arr, LAMBDA x : x = l)

\* Variant of filtered: only the first entry equal to listener is removed,
\* as with indexOf and splice.
filteredFirst(arr, l) ==
    IF \E i \in 1..Len(arr) : arr[i] = l
    THEN LET i == CHOOSE j \in 1..Len(arr) :
                    arr[j] = l /\ \A h \in 1..(j - 1) : arr[h] # l
         IN SubSeq(arr, 1, i - 1) \o SubSeq(arr, i + 1, Len(arr))
    ELSE arr

\* unsubscribe: eventListeners.filter(l => l !== listener)
filtered(arr, l) == SelectSeq(arr, LAMBDA x : x # l)

\* Variant of notifyArray: the listeners of every event type, the key ignored.
notifyEveryKey(m, k) == orEmpty(lookup(m, "open")) \o orEmpty(lookup(m, "save"))

\* notify: the array the for-of loop is started on
notifyArray(m, k) == orEmpty(lookup(m, k))

\* Variant of loopArray: the loop reads the key's current array, as it would
\* if subscribe pushed onto the stored array.
loopArrayLive(p, m) == Get(m, p.key)

\* notify: the array the running loop reads its next element from.  subscribe
\* and unsubscribe never change an array in place (they store a new one), so
\* the loop keeps reading the array it was started on.
loopArray(p, m) == p.snap

\* notify: listener.update(data)
updateCall(l, x) == [l |-> l, data |-> x]

\* ------------------------------------------------------------- pass record
\* snap, idx and invoked are the state of the loop in notify; atCall is the
\* key's sequence when notify was called.
Idle == [st |-> "idle", key |-> "", data |-> "", snap |-> <<>>, idx |-> 0,
         invoked |-> <<>>, atCall |-> <<>>]

Running == pass.st = "running"

Finished == pass.st \in {"returned", "threw"}

InvokedListeners(p) == [i \in 1..Len(p.invoked) |-> p.invoked[i].l]

\* notify(k, x) up to its first call of update(): the loop is inside that
\* call, or notify has returned because there is nothing to iterate, or the
\* loop could not be started on a value that is no array.
passStart(k, x) ==
    LET arr == notifyArray(listeners, k)
    IN [st      |-> IF arr = Undef THEN "threw"
                    ELSE IF arr = <<>> THEN "returned" ELSE "running",
        key     |-> k,
        data    |-> x,
        snap    |-> arr,
        idx     |-> IF arr \in {Undef, <<>>} THEN 0 ELSE 1,
        invoked |-> IF arr \in {Undef, <<>>} THEN <<>> ELSE <<updateCall(arr[1], x)>>,
        atCall  |-> Get(listeners, k)]

\* ---------------------------------------------------------- core actions
\* Each action below is the program's step on listeners, file, pass and
\* thrown; the specifications add the history they record to it.

\* EventManager.subscribe(eventType, listener), called by the application
\* or, while a pass is running, by the listener being updated; n bounds the
\* number of entries the registry holds.
subscribeUpTo(n, k, l) ==
    /\ TotalLen(listeners, EventTypes) < n
    /\ LET arr == orEmpty(lookup(listeners, k))
           bad == arr = Undef
       IN /\ listeners' = IF bad THEN listeners
                          ELSE MapSet(listeners, k, appended(arr, l))
          /\ pass' = IF Running
                     THEN (IF bad THEN [pass EXCEPT !.st = "threw"] ELSE pass)
                     ELSE Idle
          /\ thrown' = IF bad THEN "TypeError" ELSE "none"
    /\ UNCHANGED <<file, unit, cmds, cmdThrown, executed, before, lastExec,
                   lastUndo, inputVars>>

subscribe(k, l) == subscribeUpTo(MaxSubs, k, l)

\* EventManager.unsubscribe(eventType, listener)
unsubscribe(k, l) ==
    /\ LET arr == orEmpty(lookup(listeners, k))
           bad == arr = Undef
       IN /\ listeners' = IF bad THEN listeners
                          ELSE MapSet(listeners, k, filtered(arr, l))
          /\ pass' = IF Running
                     THEN (IF bad THEN [pass EXCEPT !.st = "threw"] ELSE pass)
                     ELSE Idle
          /\ thrown' = IF bad THEN "TypeError" ELSE "none"
    /\ UNCHANGED <<file, unit, cmds, cmdThrown, executed, before, lastExec,
                   lastUndo, inputVars>>

\* Variant of openFile: notify is called before the assignment,
\*   this.events.notify("open", path.name); this.file = new File(path)
\* so the assignment has not happened while an update() runs.
openFileNotifyFirst(p) ==
    /\ ~Running
    /\ pass' = passStart("open", p)
    /\ file' = IF pass'.st = "running" THEN file ELSE p
    /\ thrown' = IF pass'.st = "threw" THEN "TypeError" ELSE "none"
    /\ UNCHANGED <<listeners, unit, cmds, cmdThrown, executed, before, lastExec,
                   lastUndo, inputVars>>

\* Editor.openFile(path): this.file = new File(path);
\*                        this.events.notify("open", this.file.name)
openFile(p) ==
    /\ ~Running
    /\ file' = p
    /\ pass' = passStart("open", file')
    /\ thrown' = IF pass'.st = "threw" THEN "TypeError" ELSE "none"
    /\ UNCHANGED <<listeners, unit, cmds, cmdThrown, executed, before, lastExec,
                   lastUndo, inputVars>>

\* Editor.saveFile(): this.file.write(); this.events.notify("save", this.file.name)
\* Before the first openFile this.file is undefined and this.file.write()
\* raises a TypeError: notify is not reached.
saveFile ==
    /\ ~Running
    /\ pass' = IF file = NoFile THEN Idle ELSE passStart("save", file)
    /\ thrown' = IF file = NoFile \/ pass'.st = "threw" THEN "TypeError" ELSE "none"
    /\ UNCHANGED <<listeners, file, unit, cmds, cmdThrown, executed, before, lastExec,
                   lastUndo, inputVars>>

\* The running update() returns: the loop calls update() on the next element
\* of its array, or notify returns when there is none.
updateReturn ==
    /\ Running
    /\ LET arr == loopArray(pass, listeners)
       IN pass' = IF pass.idx < Len(arr)
                  THEN [pass EXCEPT !.idx = @ + 1,
                                    !.invoked = Append(@, updateCall(arr[pass.idx + 1], pass.data))]
                  ELSE [pass EXCEPT !.st = "returned"]
    /\ UNCHANGED <<listeners, file, thrown, unit, cmds, cmdThrown, executed, before, lastExec,
                   lastUndo, inputVars>>

\* Variant of updateThrow: the error is caught inside the loop, which goes on
\* with the next listener.
updateThrowCaught ==
    /\ Running
    /\ LET arr == loopArray(pass, listeners)
       IN pass' = IF pass.idx < Len(arr)
                  THEN [pass EXCEPT !.idx = @ + 1,
                                    !.invoked = Append(@, updateCall(arr[pass.idx + 1], pass.data))]
                  ELSE [pass EXCEPT !.st = "returned"]
    /\ UNCHANGED <<listeners, file, thrown, unit, cmds, cmdThrown, executed, before, lastExec,
                   lastUndo, inputVars>>

\* The running update() raises: notify has no try/catch, so the loop is
\* abandoned and the error leaves notify and the Editor method that called it.
updateThrow ==
    /\ Running
    /\ pass' = [pass EXCEPT !.st = "threw"]
    /\ thrown' = "ListenerError"
    /\ UNCHANGED <<listeners, file, unit, cmds, cmdThrown, executed, before, lastExec,
                   lastUndo, inputVars>>

\* ------------------------------------------------------- recorded history
NoWatch == <<>>

\* The kind of the step being taken: of a call, from its arguments and the
\* registry as of the call, or the end of an update().
CallKind(op, k, l) ==
    CASE op = "subscribe" -> "subscribe"
      [] op = "unsubscribe" ->
           IF k \notin DOMAIN listeners THEN "unsubscribeUnknownKey"
           ELSE IF Count(listeners[k], l) = 0 THEN "unsubscribeAbsent"
           ELSE IF Count(listeners[k], l) = 1 THEN "unsubscribeOne"
           ELSE "unsubscribeMany"
      [] op = "openFile" ->
           IF Get(listeners, k) = <<>> THEN "notifyNoSubscribers" ELSE "notify"
      [] op = "saveFile" ->
           IF file = NoFile THEN "saveWithoutFile"
           ELSE IF Get(listeners, k) = <<>> THEN "notifyNoSubscribers" ELSE "notify"
      [] OTHER -> op

\* lastCall: the kind of the step just taken.
TrackCall(op, k, l) ==
    lastCall' = CallKind(op, k, l)

\* late: when notify(k) directly follows a finished notify(k), the listeners
\* that were added to k's sequence while that earlier pass was running.
TrackLate(op, k, l) ==
    late' = IF op \in {"openFile", "saveFile"}
            THEN (IF Finished /\ pass.key = k /\ pass'.st # "idle"
                  THEN Range(Get(listeners, k)) \ Range(pass.atCall)
                  ELSE {})
            ELSE IF Running THEN late ELSE {}

\* subOrder[k]: the listeners passed to subscribe(k, _) since the last
\* unsubscribe(k, _), in call order.  expect: subOrder[k] when notify(k) was
\* called.
TrackOrder(op, k, l) ==
    /\ subOrder' = IF op = "subscribe" THEN [subOrder EXCEPT ![k] = Append(@, l)]
                   ELSE IF op = "unsubscribe" THEN [subOrder EXCEPT ![k] = <<>>]
                   ELSE subOrder
    /\ expect' = IF op \in {"openFile", "saveFile"}
                 THEN (IF pass'.st = "idle" THEN <<>> ELSE subOrder[k])
                 ELSE IF Running THEN expect ELSE <<>>

\* watch: <<k, l, armed, removed>> for one pair such that unsubscribe(k, l)
\* has returned and subscribe(k, l) has not been called since.  Which of the
\* unsubscribe calls is watched is arbitrary.  armed is FALSE while the pass
\* that was running on k when unsubscribe(k, l) was called has not ended:
\* every notify(k) called while the pair is watched has armed TRUE.  removed
\* tells whether k's sequence held l when unsubscribe was called.
Armed(w) == IF w = NoWatch THEN w ELSE <<w[1], w[2], TRUE, w[4]>>

TrackUnsub(op, k, l) ==
    watch' \in
      CASE op = "unsubscribe" ->
             {watch, <<k, l, ~(Running /\ pass.key = k), Has(Get(listeners, k), l)>>}
        [] op = "subscribe" ->
             IF watch # NoWatch /\ watch[1] = k /\ watch[2] = l THEN {NoWatch}
             ELSE IF ~Running THEN {Armed(watch)}
             ELSE {watch}
        [] op \in {"openFile", "saveFile"} -> {Armed(watch)}
        [] OTHER -> {watch}

\* gone: <<during, prev>>.  during: the listeners that were removed from the
\* key of the running pass by an unsubscribe made during that pass, at a time
\* when the loop had an entry of theirs still ahead of it, and that were not
\* subscribed to the key again during the pass.  prev: when notify(k) directly
\* follows a notify(k) that returned, the during of that earlier pass.
TrackGone(op, k, l) ==
    gone' =
      CASE op = "unsubscribe" ->
             IF ~Running THEN <<{}, {}>>
             ELSE IF k = pass.key
                     /\ \E i \in (pass.idx + 1)..Len(pass.snap) : pass.snap[i] = l
                  THEN <<gone[1] \cup {l}, gone[2]>>
                  ELSE gone
        [] op = "subscribe" ->
             IF ~Running THEN <<{}, {}>>
             ELSE IF k = pass.key THEN <<gone[1] \ {l}, gone[2]>>
                  ELSE gone
        [] op \in {"openFile", "saveFile"} ->
             IF pass.st = "returned" /\ pass.key = k /\ pass'.st # "idle"
             THEN <<{}, gone[1]>>
             ELSE <<{}, {}>>
        [] OTHER -> gone

\* ------------------------------------------------------------ command code
NoUndo == <<>>

NoPoll == <<>>

\* A JavaScript value held in a number field: a number, undefined (a field
\* never assigned, as Unit._value after "new Unit()") or NaN.
Undefined == [t |-> "undefined", n |-> 0]

NaN == [t |-> "NaN", n |-> 0]

Num(n) == [t |-> "number", n |-> n]

\* a + b on such values: undefined converts to NaN, NaN is absorbing.
JSAdd(a, b) == IF a.t = "number" /\ b.t = "number" THEN Num(a.n + b.n) ELSE NaN

InRange(v) == v.t # "number" \/ (v.n >= -MaxAbs /\ v.n <= MaxAbs)

Args == (-MaxArg)..MaxArg

\* Variant of moveTo: the argument is assigned, this._value = value
assigned(cur, value) == value

\* Unit.moveTo(value): this._value += value
moveTo(cur, value) == JSAdd(cur, value)

\* Variant of recordPrev: the assignment left out, prevValue stays as constructed.
keepPrev(cmd, u) == cmd

\* ModifyUnitCommand.execute(), on the command: this.prevValue = this.unit.value
recordPrev(cmd, u) == [cmd EXCEPT !.prevValue = u]

\* ModifyUnitCommand.execute(), on the unit: this.unit.moveTo(this.value)
executeMove(cmd, u) == moveTo(u, cmd.value)

\* ModifyUnitCommand.undo(), on the unit: this.unit.moveTo(this.prevValue)
undoMove(cmd, u) == moveTo(u, cmd.prevValue)

\* ModifyUnitCommand.undo(): the error it raises; the method has no check and
\* no statement that can raise.
undoThrows(cmd) == "none"

\* --------------------------------------------------------- command actions
\* Unit "set value(value)"
setValue(v) ==
    /\ unit' = Num(v)
    /\ cmdThrown' = "none"
    /\ lastExec' = ""
    /\ UNCHANGED <<cmds, executed, before>>
    /\ UNCHANGED <<listeners, file, pass, thrown, lastCall, late, subOrder, expect, watch, gone>>

\* new ModifyUnitCommand(unit, value, prevValue)
construct(c, v, p) ==
    /\ cmds' = MapSet(cmds, c, [value |-> Num(v), prevValue |-> Num(p)])
    /\ executed' = executed \ {c}
    /\ before' = [before EXCEPT ![c] = Undefined]
    /\ cmdThrown' = "none"
    /\ lastExec' = ""
    /\ UNCHANGED unit
    /\ UNCHANGED <<listeners, file, pass, thrown, lastCall, late, subOrder, expect, watch, gone>>

\* ModifyUnitCommand.execute()
execute(c) ==
    /\ c \in DOMAIN cmds
    /\ InRange(executeMove(cmds[c], unit))
    /\ cmds' = [cmds EXCEPT ![c] = recordPrev(@, unit)]
    /\ unit' = executeMove(cmds'[c], unit)
    /\ executed' = executed \cup {c}
    /\ before' = [before EXCEPT ![c] = unit]
    /\ cmdThrown' = "none"
    /\ lastExec' = c
    /\ UNCHANGED <<listeners, file, pass, thrown, lastCall, late, subOrder, expect, watch, gone>>

\* Variant of undo: the recorded value is used up by the call,
\*   this.unit.moveTo(this.prevValue); this.prevValue = 0
undoClearing(c) ==
    /\ c \in DOMAIN cmds
    /\ InRange(undoMove(cmds[c], unit))
    /\ cmdThrown' = undoThrows(cmds[c])
    /\ unit' = IF cmdThrown' = "none" THEN undoMove(cmds[c], unit) ELSE unit
    /\ cmds' = [cmds EXCEPT ![c].prevValue = Num(0)]
    /\ lastExec' = ""
    /\ UNCHANGED <<executed, before>>
    /\ UNCHANGED <<listeners, file, pass, thrown, lastCall, late, subOrder, expect, watch, gone>>

\* ModifyUnitCommand.undo()
undo(c) ==
    /\ c \in DOMAIN cmds
    /\ InRange(undoMove(cmds[c], unit))
    /\ cmdThrown' = undoThrows(cmds[c])
    /\ unit' = IF cmdThrown' = "none" THEN undoMove(cmds[c], unit) ELSE unit
    /\ lastExec' = ""
    /\ UNCHANGED <<cmds, executed, before>>
    /\ UNCHANGED <<listeners, file, pass, thrown, lastCall, late, subOrder, expect, watch, gone>>

\* lastUndo: <<c, d, n>> when the most recent call was undo() on command c:
\* d is the amount that call changed the Unit's number by (NaN when the Unit
\* held no number before or after), n is 2 when the call before it was an
\* undo() on c as well, 1 otherwise.
TrackUndo(op, c) ==
    lastUndo' =
      IF op = "undo"
      THEN <<c,
             IF unit.t = "number" /\ unit'.t = "number" THEN Num(unit'.n - unit.n) ELSE NaN,
             IF lastUndo # NoUndo /\ lastUndo[1] = c THEN 2 ELSE 1>>
      ELSE NoUndo

\* ------------------------------------------------------ InputHandler code
\* isTriggered(action), t being what the environment answers
isTriggered(t, action) == action \in t

\* Variant of firstTriggered: SELL is tested before BUY.
sellFirst(t) ==
    IF isTriggered(t, "SELL") THEN "SELL"
    ELSE IF isTriggered(t, "BUY") THEN "BUY"
    ELSE "none"

\* The chain of tests in handleInput and in handleUnitInput:
\*   if (isTriggered(Action.BUY_ACTION)) ... if (isTriggered(Action.SELL_ACTION)) ...
\* as the action whose branch returns, "none" when the method falls through
\* to "return null".
firstTriggered(t) ==
    IF isTriggered(t, "BUY") THEN "BUY"
    ELSE IF isTriggered(t, "SELL") THEN "SELL"
    ELSE "none"

\* Variant of logged: a line already written is not written again.
loggedOnce(o, line) == IF Has(o, line) THEN o ELSE Append(o, line)

\* console.log(line)
logged(o, line) == Append(o, line)

\* BuyCommand.execute(actor): actor.buy(); SellCommand.execute(actor): actor.sell()
simpleExecute(cmd, o) ==
    IF cmd = "buyCommand" THEN logged(o, "buy") ELSE logged(o, "sell")

\* getSelectedUnit(), as the value the Unit it returns holds
getSelectedUnit(sel) == IF sel = "new" THEN Undefined ELSE unit

\* InputHandler.handleInput()
handleInput(t) ==
    /\ polled' = CASE firstTriggered(t) = "BUY" -> "buyCommand"
                   [] firstTriggered(t) = "SELL" -> "sellCommand"
                   [] OTHER -> "null"
    /\ UNCHANGED <<out, cmdVars>>
    /\ UNCHANGED <<listeners, file, pass, thrown, lastCall, late, subOrder, expect, watch, gone>>

\* InputHandler.handleUnitInput(): c names the ModifyUnitCommand it
\* constructs.  The model follows one Unit, the selected one: when a new
\* Unit is selected, the commands on the Unit selected before are dropped.
handleUnitInput(c, t, sel) ==
    LET selected == getSelectedUnit(sel)
        held     == IF sel = "new" THEN EmptyMap ELSE cmds
        delta    == IF firstTriggered(t) = "BUY" THEN 1 ELSE -1
        newValue == JSAdd(selected, Num(delta))
        made     == firstTriggered(t) # "none"
    IN /\ InRange(newValue)
       /\ unit' = selected
       /\ polled' = IF made THEN c ELSE "null"
       /\ cmds' = IF made
                  THEN MapSet(held, c, [value |-> newValue, prevValue |-> selected])
                  ELSE held
       /\ executed' = (executed \cap DOMAIN held) \ (IF made THEN {c} ELSE {})
       /\ before' = [x \in Commands |->
                       IF x \in DOMAIN held /\ ~(made /\ x = c) THEN before[x]
                       ELSE Undefined]
       /\ cmdThrown' = "none"
       /\ lastExec' = ""
       /\ out' = out
       /\ UNCHANGED <<listeners, file, pass, thrown, lastCall, late, subOrder, expect, watch, gone>>

\* command.execute(new Actor()) on the BuyCommand or SellCommand that the
\* last handleInput returned
executeSimple ==
    /\ polled \in {"buyCommand", "sellCommand"}
    /\ Len(out) < MaxOut
    /\ out' = simpleExecute(polled, out)
    /\ UNCHANGED <<polled, cmdVars>>
    /\ UNCHANGED <<listeners, file, pass, thrown, lastCall, late, subOrder, expect, watch, gone>>

\* pollInfo: <<method, t, v>> right after a poll: the method called, what
\* isTriggered answered and the value the selected Unit held.  execLog: the
\* BuyCommand / SellCommand objects execute(actor) was called on, in order.
TrackPoll(op, t, sel) ==
    /\ pollInfo' = IF op = "handleInput" THEN <<op, t, Undefined>>
                   ELSE IF op = "handleUnitInput" THEN <<op, t, getSelectedUnit(sel)>>
                   ELSE NoPoll
    /\ execLog' = IF op = "executeSimple" THEN Append(execLog, polled) ELSE execLog

\* ---------------------------------------------------------- specifications
Init ==
    /\ listeners = EmptyMap
    /\ file = NoFile
    /\ pass = Idle
    /\ thrown = "none"
    /\ lastCall = "none"
    /\ late = {}
    /\ subOrder = [k \in EventTypes |-> <<>>]
    /\ expect = <<>>
    /\ watch = NoWatch
    /\ unit = Undefined
    /\ cmds = [c \in {} |-> Undefined]
    /\ cmdThrown = "none"
    /\ executed = {}
    /\ before = [c \in Commands |-> Undefined]
    /\ lastExec = ""
    /\ gone = <<{}, {}>>
    /\ lastUndo = NoUndo
    /\ polled = "none"
    /\ out = <<>>
    /\ pollInfo = NoPoll
    /\ execLog = <<>>

\* The observer program, recording the kind of the last call.
Next ==
    \/ \E k \in EventTypes, l \in Listeners :
         subscribe(k, l) /\ TrackCall("subscribe", k, l) /\ UNCHANGED <<late, orderVars, watch, gone>>
    \/ \E k \in EventTypes, l \in Listeners :
         unsubscribe(k, l) /\ TrackCall("unsubscribe", k, l) /\ UNCHANGED <<late, orderVars, watch, gone>>
    \/ \E p \in Paths :
         openFile(p) /\ TrackCall("openFile", "open", "") /\ UNCHANGED <<late, orderVars, watch, gone>>
    \/ saveFile /\ TrackCall("saveFile", "save", "") /\ UNCHANGED <<late, orderVars, watch, gone>>
    \/ updateReturn /\ TrackCall("updateReturn", "", "") /\ UNCHANGED <<late, orderVars, watch, gone>>
    \/ updateThrow /\ TrackCall("updateThrow", "", "") /\ UNCHANGED <<late, orderVars, watch, gone>>

Spec == Init /\ [][Next]_vars

\* The observer program, recording the listeners added during a pass.
NextLate ==
    \/ \E k \in EventTypes, l \in Listeners :
         subscribe(k, l) /\ TrackLate("subscribe", k, l) /\ UNCHANGED <<lastCall, orderVars, watch, gone>>
    \/ \E k \in EventTypes, l \in Listeners :
         unsubscribe(k, l) /\ TrackLate("unsubscribe", k, l) /\ UNCHANGED <<lastCall, orderVars, watch, gone>>
    \/ \E p \in Paths :
         openFile(p) /\ TrackLate("openFile", "open", "") /\ UNCHANGED <<lastCall, orderVars, watch, gone>>
    \/ saveFile /\ TrackLate("saveFile", "save", "") /\ UNCHANGED <<lastCall, orderVars, watch, gone>>
    \/ updateReturn /\ TrackLate("updateReturn", "", "") /\ UNCHANGED <<lastCall, orderVars, watch, gone>>
    \/ updateThrow /\ TrackLate("updateThrow", "", "") /\ UNCHANGED <<lastCall, orderVars, watch, gone>>

SpecLate == Init /\ [][NextLate]_vars

\* The observer program with listeners that leave the registry alone in
\* update(), as LoggingListener and EmailAlertsListener do, recording the
\* order of the subscribe calls.
NextOrder ==
    \/ \E k \in EventTypes, l \in Listeners :
         ~Running /\ subscribe(k, l) /\ TrackOrder("subscribe", k, l)
         /\ UNCHANGED <<lastCall, late, watch, gone>>
    \/ \E k \in EventTypes, l \in Listeners :
         ~Running /\ unsubscribe(k, l) /\ TrackOrder("unsubscribe", k, l)
         /\ UNCHANGED <<lastCall, late, watch, gone>>
    \/ \E p \in Paths :
         openFile(p) /\ TrackOrder("openFile", "open", "") /\ UNCHANGED <<lastCall, late, watch, gone>>
    \/ saveFile /\ TrackOrder("saveFile", "save", "") /\ UNCHANGED <<lastCall, late, watch, gone>>
    \/ updateReturn /\ TrackOrder("updateReturn", "", "") /\ UNCHANGED <<lastCall, late, watch, gone>>
    \/ updateThrow /\ TrackOrder("updateThrow", "", "") /\ UNCHANGED <<lastCall, late, watch, gone>>

SpecOrder == Init /\ [][NextOrder]_vars

\* The observer program opening one file only, recording an unsubscribe call
\* that has returned.
NextUnsub ==
    \/ \E k \in EventTypes, l \in Listeners :
         subscribe(k, l) /\ TrackUnsub("subscribe", k, l) /\ UNCHANGED <<lastCall, late, orderVars, gone>>
    \/ \E k \in EventTypes, l \in Listeners :
         unsubscribe(k, l) /\ TrackUnsub("unsubscribe", k, l) /\ UNCHANGED <<lastCall, late, orderVars, gone>>
    \/ \E p \in OnePath :
         openFile(p) /\ TrackUnsub("openFile", "open", "") /\ UNCHANGED <<lastCall, late, orderVars, gone>>
    \/ saveFile /\ TrackUnsub("saveFile", "save", "") /\ UNCHANGED <<lastCall, late, orderVars, gone>>
    \/ updateReturn /\ TrackUnsub("updateReturn", "", "") /\ UNCHANGED <<lastCall, late, orderVars, gone>>
    \/ updateThrow /\ TrackUnsub("updateThrow", "", "") /\ UNCHANGED <<lastCall, late, orderVars, gone>>

SpecUnsub == Init /\ [][NextUnsub]_vars

\* The observer program opening one file only, recording the listeners
\* removed during a pass.
NextGone ==
    \/ \E k \in EventTypes, l \in Listeners :
         subscribe(k, l) /\ TrackGone("subscribe", k, l)
         /\ UNCHANGED <<lastCall, late, orderVars, watch>>
    \/ \E k \in EventTypes, l \in Listeners :
         unsubscribe(k, l) /\ TrackGone("unsubscribe", k, l)
         /\ UNCHANGED <<lastCall, late, orderVars, watch>>
    \/ \E p \in OnePath :
         openFile(p) /\ TrackGone("openFile", "open", "")
         /\ UNCHANGED <<lastCall, late, orderVars, watch>>
    \/ saveFile /\ TrackGone("saveFile", "save", "")
         /\ UNCHANGED <<lastCall, late, orderVars, watch>>
    \/ updateReturn /\ TrackGone("updateReturn", "", "")
         /\ UNCHANGED <<lastCall, late, orderVars, watch>>
    \/ updateThrow /\ TrackGone("updateThrow", "", "")
         /\ UNCHANGED <<lastCall, late, orderVars, watch>>

SpecGone == Init /\ [][NextGone]_vars

\* The registry alone, with room for more entries, recording the kind of
\* the last call.
NextReg ==
    \/ \E k \in EventTypes, l \in Listeners :
         subscribeUpTo(MaxReg, k, l) /\ TrackCall("subscribe", k, l)
         /\ UNCHANGED <<late, orderVars, watch, gone>>
    \/ \E k \in EventTypes, l \in Listeners :
         unsubscribe(k, l) /\ TrackCall("unsubscribe", k, l)
         /\ UNCHANGED <<late, orderVars, watch, gone>>

SpecReg == Init /\ [][NextReg]_vars

\* The command program.
NextCmd ==
    \/ \E v \in Args : setValue(v) /\ UNCHANGED <<lastUndo, inputVars>>
    \/ \E c \in Commands, v \in Args, p \in Args :
         construct(c, v, p) /\ UNCHANGED <<lastUndo, inputVars>>
    \/ \E c \in Commands : execute(c) /\ UNCHANGED <<lastUndo, inputVars>>
    \/ \E c \in Commands : undo(c) /\ UNCHANGED <<lastUndo, inputVars>>

SpecCmd == Init /\ [][NextCmd]_vars

\* The command program with one command, recording the undo() calls made in
\* a row.
NextUndo ==
    \/ \E v \in Args : setValue(v) /\ TrackUndo("setValue", "") /\ UNCHANGED inputVars
    \/ \E c \in OneCommand, v \in Args, p \in Args :
         construct(c, v, p) /\ TrackUndo("construct", c) /\ UNCHANGED inputVars
    \/ \E c \in OneCommand : execute(c) /\ TrackUndo("execute", c) /\ UNCHANGED inputVars
    \/ \E c \in OneCommand : undo(c) /\ TrackUndo("undo", c) /\ UNCHANGED inputVars

SpecUndo == Init /\ [][NextUndo]_vars

\* The input handler program on a selected Unit: polls that construct one
\* command at a time, the setter of the Unit, and execute() on the command
\* the last poll returned.
NextPoll ==
    \/ \E t \in Triggers :
         handleInput(t) /\ TrackPoll("handleInput", t, "") /\ UNCHANGED lastUndo
    \/ \E c \in OneCommand, t \in Triggers, sel \in Selections :
         handleUnitInput(c, t, sel) /\ TrackPoll("handleUnitInput", t, sel)
         /\ UNCHANGED lastUndo
    \/ \E v \in Args :
         setValue(v) /\ TrackPoll("setValue", {}, "") /\ UNCHANGED <<lastUndo, polled, out>>
    \/ \E c \in OneCommand :
         polled = c /\ execute(c) /\ TrackPoll("execute", {}, "")
         /\ UNCHANGED <<lastUndo, polled, out>>

SpecPoll == Init /\ [][NextPoll]_vars

\* The input handler program as demo() runs it: handleInput, then execute
\* on the command it returned.
NextSimple ==
    \/ \E t \in Triggers :
         handleInput(t) /\ TrackPoll("handleInput", t, "") /\ UNCHANGED lastUndo
    \/ executeSimple /\ TrackPoll("executeSimple", {}, "") /\ UNCHANGED lastUndo

SpecSimple == Init /\ [][NextSimple]_vars

\* ------------------------------------------------------------------ claims
\* The update() calls a pass makes for the listeners of sequence q.
CallsFor(q, x) == [i \in 1..Len(q) |-> [l |-> q[i], data |-> x]]

\* C1 (SpecOrder): when notify(key, x) has returned, the listeners passed to
\* subscribe(key, _) since the last unsubscribe on that key have each been
\* called with update(x), in the order of those subscribe calls, as the last
\* calls of the pass.
C1_SubscriptionOrder ==
    pass.st = "returned" => IsSuffix(CallsFor(expect, pass.data), pass.invoked)

\* The example of the specification: logger then emailAlerts subscribed to
\* "save", then a notify on "save" that has returned.
C1_Witness ==
    /\ pass.st = "returned"
    /\ pass.key = "save"
    /\ expect = <<"logger", "emailAlerts">>
    /\ pass.invoked = CallsFor(expect, file)

\* C2 (SpecUnsub): once unsubscribe(k, L) has returned and while subscribe(k, L)
\* has not been called again, no notify(k, _) called since has called
\* L.update, whatever the pass has done so far and however it ended.
C2_UnsubscribeEffective ==
    (watch # NoWatch /\ watch[3] /\ pass.st # "idle" /\ pass.key = watch[1])
        => watch[2] \notin Range(InvokedListeners(pass))

\* A notify on k that was called after unsubscribe(k, L) had removed L, has
\* called another listener and has returned.
C2_Witness ==
    /\ watch # NoWatch /\ watch[3]
    /\ pass.st = "returned"
    /\ pass.key = watch[1]
    /\ watch[4]
    /\ Len(pass.invoked) >= 1

\* C4 (SpecLate): a listener that was added to k's sequence while a pass on k
\* was running, and was not in the sequence when that notify was called, is
\* not called in that pass; and when the next notify(k, _) follows directly
\* and returns, it has called that listener.
C4_SubscribeDuringNotify ==
    /\ pass.st # "idle" =>
         \A l \in Range(Get(listeners, pass.key)) \ Range(pass.atCall) :
             l \notin Range(InvokedListeners(pass))
    /\ pass.st = "returned" => late \subseteq Range(InvokedListeners(pass))

\* The second of two notify("open") has returned and has called "other",
\* which was subscribed to "open" during the first.
C4_Witness ==
    /\ pass.st = "returned"
    /\ pass.key = "open"
    /\ late = {"other"}
    /\ pass.invoked = CallsFor(<<"logger", "other">>, file)

\* What a call that has nothing to do leaves behind: no error, no further
\* update() call, every key's sequence as it was.
NothingDone ==
    /\ thrown' = "none"
    /\ pass'.st # "threw"
    /\ pass'.invoked \in {<<>>, pass.invoked}
    /\ \A k \in EventTypes : Get(listeners', k) = Get(listeners, k)

\* C5 (Spec): unsubscribe on a key the map does not hold, unsubscribe of a
\* listener the key's sequence does not hold, and notify on a key without
\* subscribers raise no error, call no listener and leave every key's
\* sequence unchanged.
C5_NoOpCalls ==
    [][ /\ \A k \in EventTypes, l \in Listeners :
             \/ Has(Get(listeners, k), l)
             \/ NothingDone
             \/ ~unsubscribe(k, l)
        /\ \/ Get(listeners, "open") # <<>>
           \/ NothingDone /\ pass'.st = "returned" /\ pass'.invoked = <<>>
           \/ \A p \in Paths : ~openFile(p)
        /\ \/ file = NoFile
           \/ Get(listeners, "save") # <<>>
           \/ NothingDone /\ pass'.st = "returned" /\ pass'.invoked = <<>>
           \/ ~saveFile
      ]_vars

\* unsubscribe was just called on a key that was never subscribed to, while
\* the other key has a subscriber.
C5_Witness ==
    /\ lastCall = "unsubscribeUnknownKey"
    /\ thrown = "none"
    /\ \E k \in EventTypes : Get(listeners, k) # <<>>

\* The registry as Application.config() leaves it.
Configured ==
    /\ Get(listeners, "open") = <<"logger">>
    /\ Get(listeners, "save") = <<"emailAlerts">>

\* C7 (Spec): with logger subscribed to "open" only and emailAlerts to "save"
\* only, openFile calls logger.update once and nothing else, and saveFile
\* calls emailAlerts.update once and nothing else, each with the file name.
C7_RoutedByKey ==
    (pass.st = "returned" /\ Configured /\ pass.atCall = Get(listeners, pass.key))
        => /\ pass.key = "open" => pass.invoked = <<[l |-> "logger", data |-> file]>>
           /\ pass.key = "save" => pass.invoked = <<[l |-> "emailAlerts", data |-> file]>>

C7_Witness ==
    /\ pass.st = "returned"
    /\ Configured
    /\ pass.key = "save"
    /\ lastCall = "updateReturn"
    /\ pass.invoked = <<[l |-> "emailAlerts", data |-> "a.txt"]>>

\* C8 (Spec): when an update() raises, the error leaves notify, the calls
\* made so far are those for the listeners up to the one that raised, in
\* order, none is made later in that pass, and the raise changes no sequence.
C8_ListenerFailure ==
    /\ [](pass.st = "threw" =>
            /\ thrown = "ListenerError"
            /\ Len(pass.invoked) >= 1
            /\ Len(pass.invoked) <= Len(pass.atCall)
            /\ pass.invoked = CallsFor(SubSeq(pass.atCall, 1, Len(pass.invoked)), pass.data))
    /\ [][ /\ updateThrow => (pass'.st = "threw" /\ pass'.invoked = pass.invoked
                              /\ listeners' = listeners)
           /\ (pass.st = "threw" /\ pass'.st = "threw") => pass'.invoked = pass.invoked
         ]_vars

\* The first of two listeners raised: the second was not called.
C8_Witness ==
    /\ pass.st = "threw"
    /\ thrown = "ListenerError"
    /\ Len(pass.atCall) = 2
    /\ Len(pass.invoked) = 1

\* C9 (Spec): a notify that has returned has called each listener as many
\* times as the key's sequence held it when notify was called; and after
\* unsubscribe(k, L) the key's sequence holds no entry of L.
C9_NoDeduplication ==
    /\ [](pass.st = "returned" =>
            \A l \in Listeners :
                Count(InvokedListeners(pass), l) = Count(pass.atCall, l))
    /\ [][ \A k \in EventTypes, l \in Listeners :
               ~Has(Get(listeners', k), l) \/ ~unsubscribe(k, l) ]_vars

\* A listener subscribed twice is being called the second time and has just
\* removed both of its entries with one unsubscribe.
C9_Witness ==
    /\ pass.st = "running"
    /\ lastCall = "unsubscribeMany"
    /\ \E l \in Listeners :
          /\ pass.atCall = <<l, l>>
          /\ InvokedListeners(pass) = <<l, l>>
          /\ Count(Get(listeners, pass.key), l) = 0

\* C3 (SpecCmd): execute() directly followed by undo() on the same command
\* leaves the Unit with the number it held before the execute.
C3_UndoExact ==
    [][ \A c \in Commands :
            (lastExec = c /\ before[c].t = "number" /\ undo(c)) => unit' = before[c]
      ]_vars

\* C6 (SpecCmd): undo() on a command whose execute() was never called raises
\* an invalid-state error and leaves the Unit's value as it was.
C6_UndoBeforeExecute ==
    [][ \A c \in Commands :
            (c \notin executed /\ undo(c)) => (cmdThrown' = "InvalidState" /\ unit' = unit)
      ]_vars

\* C10 (SpecCmd): from execute() on, until the command is constructed anew,
\* its prevValue is the value the Unit held just before its most recent
\* execute().
C10_PrevValueRecorded ==
    \A c \in executed : cmds[c].prevValue = before[c]

\* c2 was executed on a Unit holding 2, a number that no constructor
\* argument can be and that an execute() of c1 left there.
C10_Witness ==
    /\ executed = Commands
    /\ lastExec = "c2"
    /\ before["c2"] = Num(MaxArg + 1)
    /\ cmds["c2"].prevValue = Num(MaxArg + 1)

\* C11 (SpecCmd): right after execute() of a command with new value v1 on a
\* Unit that held the number v0, the Unit holds v0 + v1.
C11_ExecuteAdds ==
    \A c \in Commands :
        (lastExec = c /\ before[c].t = "number")
            => unit = Num(before[c].n + cmds[c].value.n)

\* execute() of a command with new value 1 on a Unit holding 1 has left 2.
C11_Witness ==
    /\ lastExec = "c1"
    /\ before["c1"] = Num(1)
    /\ cmds["c1"].value = Num(1)
    /\ unit = Num(2)

\* C12 (Spec): openFile and saveFile call notify after their own work is
\* done, once, with their own key: while any update() runs, the Editor's file
\* is the one the operation left and its name is the data of the pass;
\* openFile(p) starts a pass on "open" with p already the file, saveFile one
\* on "save"; and nothing that happens while a pass runs starts another pass
\* or changes the file.
C12_MutationBeforeNotify ==
    /\ [](pass.st = "running" => (file # NoFile /\ pass.data = file))
    /\ [][ /\ \A p \in Paths :
                \/ ~openFile(p)
                \/ (file' = p /\ pass'.key = "open" /\ pass'.data = p)
           /\ \/ file = NoFile
              \/ ~saveFile
              \/ (file' = file /\ pass'.key = "save" /\ pass'.data = file)
           /\ Running =>
                /\ file' = file
                /\ pass'.key = pass.key /\ pass'.data = pass.data
                /\ pass'.atCall = pass.atCall /\ pass'.snap = pass.snap
         ]_vars

\* saveFile has just called notify and the first update() is running, after
\* openFile("b.txt").
C12_Witness ==
    /\ pass.st = "running"
    /\ lastCall = "notify"
    /\ pass.key = "save"
    /\ file = "b.txt"
    /\ pass.invoked = <<[l |-> pass.atCall[1], data |-> "b.txt"]>>

\* C13 (SpecPoll): right after a poll, what it returned is decided by the
\* triggers in the order BUY, SELL: the buy command when BUY is triggered,
\* whether or not SELL is; the sell command when SELL alone is; null when
\* neither is.  For handleInput these are the BuyCommand and SellCommand
\* objects, for handleUnitInput a ModifyUnitCommand whose new value is the
\* selected Unit's value plus 1 (buy) or minus 1 (sell).
C13_PollPriority ==
    pollInfo # NoPoll =>
        LET t == pollInfo[2]
            v == pollInfo[3]
            buy == "BUY" \in t
            sell == "BUY" \notin t /\ "SELL" \in t
        IN /\ t = {} => polled = "null"
           /\ pollInfo[1] = "handleInput" =>
                /\ buy => polled = "buyCommand"
                /\ sell => polled = "sellCommand"
           /\ pollInfo[1] = "handleUnitInput" =>
                /\ buy => /\ polled \in DOMAIN cmds
                          /\ cmds[polled] = [value |-> JSAdd(v, Num(1)), prevValue |-> v]
                /\ sell => /\ polled \in DOMAIN cmds
                           /\ cmds[polled] = [value |-> JSAdd(v, Num(-1)), prevValue |-> v]

\* handleUnitInput with both triggers on a Unit holding 1 has returned the
\* buy command: new value 2.
C13_Witness ==
    /\ pollInfo = <<"handleUnitInput", {"BUY", "SELL"}, Num(1)>>
    /\ polled = "c1"
    /\ cmds["c1"].value = Num(2)

\* C14 (SpecSimple): every execute(actor) call on a BuyCommand or SellCommand
\* has performed its action once: the console holds one line per call, in
\* call order, "buy" for a BuyCommand and "sell" for a SellCommand, however
\* often the same command was executed.
C14_OneActionPerExecute ==
    /\ Len(out) = Len(execLog)
    /\ \A i \in 1..Len(execLog) :
           out[i] = IF execLog[i] = "buyCommand" THEN "buy" ELSE "sell"

\* The BuyCommand was executed twice, then polled again.
C14_Witness ==
    /\ execLog = <<"buyCommand", "buyCommand">>
    /\ out = <<"buy", "buy">>
    /\ polled = "buyCommand"
    /\ pollInfo # NoPoll

\* C15 (SpecGone): a listener that an update() of the running pass on k
\* removes from k's sequence while the loop still has an entry of it ahead is
\* called all the same before that notify returns; and once it has returned,
\* the notify(k, _) that follows directly does not call it.
C15_UnsubscribeDuringNotify ==
    /\ pass.st = "returned" => gone[1] \subseteq Range(InvokedListeners(pass))
    /\ pass.st # "idle" => gone[2] \cap Range(InvokedListeners(pass)) = {}

\* The second of two notify("open") has returned after calling logger only:
\* "other", second in the sequence, was unsubscribed during the first, which
\* went on to call it.
C15_Witness ==
    /\ pass.st = "returned"
    /\ pass.key = "open"
    /\ gone = <<{}, {"other"}>>
    /\ pass.invoked = CallsFor(<<"logger">>, file)

\* C16 (SpecUndo): undo() leaves the command's new value and previous value
\* as they were; and an undo() that directly follows an undo() on the same
\* command changes the Unit's number by the same amount as that one did.
C16_UndoRepeats ==
    [][ \A c \in Commands :
            \/ ~undo(c)
            \/ /\ cmds' = cmds
               /\ (/\ lastUndo # NoUndo /\ lastUndo[1] = c /\ lastUndo[2].t = "number"
                   /\ unit.t = "number" /\ unit'.t = "number")
                      => unit'.n - unit.n = lastUndo[2].n
      ]_vars

\* Two undo() calls in a row on c1 have each added 1.
C16_Witness ==
    /\ lastUndo = <<"c1", Num(1), 2>>
    /\ cmds["c1"].prevValue = Num(1)
    /\ unit = Num(2)

\* The sequence s with every entry equal to x taken out, the others in place.
RECURSIVE Without(_, _)
Without(s, x) ==
    IF s = <<>> THEN <<>>
    ELSE IF Head(s) = x THEN Without(Tail(s), x)
    ELSE <<Head(s)>> \o Without(Tail(s), x)

\* The sequences of the keys other than k are as they were.
OtherKeysKept(k) ==
    \A k2 \in EventTypes \ {k} : Get(listeners', k2) = Get(listeners, k2)

\* C17 (SpecReg): subscribe(k, L) leaves k's sequence as it was with L added
\* at the end; unsubscribe(k, L) leaves k's sequence as it was with the
\* entries of L taken out and the others in their order; neither changes the
\* sequence of another key.
C17_OnlyKeyChanged ==
    [][ \A k \in EventTypes, l \in Listeners :
            /\ \/ ~subscribeUpTo(MaxReg, k, l)
               \/ /\ Get(listeners', k) = Get(listeners, k) \o <<l>>
                  /\ OtherKeysKept(k)
            /\ \/ ~unsubscribe(k, l)
               \/ /\ Get(listeners', k) = Without(Get(listeners, k), l)
                  /\ OtherKeysKept(k)
      ]_vars

\* An unsubscribe on "save" has removed one entry and left two, with a
\* listener subscribed to "open".
C17_Witness ==
    /\ lastCall = "unsubscribeOne"
    /\ Get(listeners, "save") = <<"logger", "other">>
    /\ Get(listeners, "open") = <<"emailAlerts">>

\* C18 (SpecPoll): execute() on the command that handleUnitInput has just
\* returned for a selected Unit holding the number v leaves the Unit holding
\* v + 1 when BUY was triggered and v - 1 when SELL alone was.
C18_PolledCommandMoves ==
    [][ \A c \in Commands :
            (/\ pollInfo # NoPoll /\ pollInfo[1] = "handleUnitInput"
             /\ pollInfo[3].t = "number"
             /\ polled = c
             /\ execute(c))
                => unit' = Num(pollInfo[3].n
                               + (IF "BUY" \in pollInfo[2] THEN 1 ELSE -1))
      ]_vars

====
